---- MODULE Spec2Model ----
(* Photo matching, cover / table-of-contents / chapter assembly and layout    *)
(* selection of biography_pdf_generator.py (BiographyPDFGenerator).           *)
(*                                                                            *)
(* Abstraction of the text data: a photo is its filename, its year (0 for a   *)
(* NULL year), the set of names in its people field, whether its title        *)
(* contains "family", and the set of chapter keywords that occur in its       *)
(* combined text.  A chapter is its title, the first 4-digit run of the title *)
(* (0 when there is none), the length of its narrative, the names that occur  *)
(* in the narrative (once each, as whole words, in text order) and the        *)
(* keywords of its first 500 characters.  Names are two short capitalised     *)
(* words, so no word of a name is itself a keyword (keywords have >= 4        *)
(* letters).                                                                  *)
EXTENDS Integers, Sequences, FiniteSets, TLC

VARIABLES
    chapters,           \* argument: the chapter list
    chapters_type,      \* Python type of the argument: "list", "NoneType", "str"
    catalog,            \* rows of the media table, in the query's order
    hero_photo,         \* argument: explicit cover filename, or None
    missing,            \* filenames _get_safe_photo_path does not resolve
    argNames,           \* argument family_names of the method
    entry,              \* "method": BiographyPDFGenerator.generate_biography_pdf
                        \* "legacy": module-level generate_biography_pdf
                        \* "route":  the HTTP route, which calls the legacy function
                        \* "unit":   one call of the matcher, then of the layout
                        \* "quote":  one call of _extract_pull_quote
    calls,              \* calls of the entry point still to be made
    max_photos,         \* argument max_photos of a direct matcher call
    pc,                 \* position in generate_biography_pdf
    i,                  \* index of the next chapter in the current loop
    family_names,       \* self.family_names
    used_images,        \* self.used_images
    available_photos,   \* local available_photos
    cover,              \* filename shown on the cover, or None
    toc_photos,         \* per chapter, what the matcher returned in the TOC pass
    chapter_thumbnails, \* dict title -> filename of the thumbnail
    toc_entries,        \* per TOC entry, the thumbnail filename shown, or None
    chapter_photos,     \* per chapter, what the matcher returned for the body
    chapter_html,       \* per chapter, what _create_chapter_html rendered
    prev,               \* what the previous call of the entry point produced
    db,                 \* "ok": the media query answers; "fails": it raises;
                        \* "none": there is no connection to ask (line 701)
    scored_photos,      \* local scored_photos of the last matcher call, sorted
    outcome,            \* what the caller got: "none" yet, "pdf", "error", "400"
    text,               \* argument text of _extract_pull_quote (characters)
    max_length,         \* argument max_length of _extract_pull_quote
    pull_quote,         \* what _extract_pull_quote returned
    runs,               \* concurrent calls: per call, its position and results
    connection          \* module-level function: db_connection, should_close and
                        \* which connections are open, which it closed

vars == <<chapters, chapters_type, catalog, hero_photo, missing, argNames, entry, calls,
          max_photos, pc, i, family_names, used_images, available_photos, cover,
          toc_photos, chapter_thumbnails, toc_entries, chapter_photos,
          chapter_html, prev, db, scored_photos, outcome, text, max_length,
          pull_quote, runs, connection>>

None == "None"

(* ---------------------------------------------------------------- bounds *)
MaxChapters == 2
MaxCatalog == 5
MaxPhotosArg == 5

(* ----------------------------------------------------- program constants *)
YearExactScore == 100
YearNearScore == 50
YearFarScore == 20
YearNearDiff == 2
YearFarDiff == 5
NameScore == 30
KeywordScore == 5
TocMaxPhotos == 1
ChapterMaxPhotos == 3
GridCap == 3
FacingMinLen == 800
EmbedMinLen == 400
SpanOverhead == 36
LegacyNamesPerChapter == 2
LegacyNameCap == 5

(* ------------------------------------------------------------------ text *)
\* Texts are sequences of characters.
Range(s) == {s[k] : k \in DOMAIN s}

UpperCase == <<"A", "B", "C", "D", "E", "F", "G", "H", "I", "J", "K", "L", "M",
               "N", "O", "P", "Q", "R", "S", "T", "U", "V", "W", "X", "Y", "Z">>
LowerCase == <<"a", "b", "c", "d", "e", "f", "g", "h", "i", "j", "k", "l", "m",
               "n", "o", "p", "q", "r", "s", "t", "u", "v", "w", "x", "y", "z">>

\* str.lower()
LowerOf == [c \in Range(UpperCase) |->
                LowerCase[CHOOSE k \in DOMAIN UpperCase : UpperCase[k] = c]]
LowerChar(c) == IF c \in DOMAIN LowerOf THEN LowerOf[c] ELSE c
Lower(s) == [k \in 1..Len(s) |-> LowerChar(s[k])]

\* word in s
Contains(s, word) ==
    \E k \in 1..(Len(s) - Len(word) + 1) : SubSeq(s, k, k + Len(word) - 1) = word

\* 'family' in photo.get('title', '').lower() (line 746)
FamilyWord == <<"f", "a", "m", "i", "l", "y">>
TitleHasFamily(title) == Contains(Lower(title), FamilyWord)

\* Our FAMILY picnic
TitlePicnic ==
    <<"O", "u", "r", " ", "F", "A", "M", "I", "L", "Y", " ", "p", "i", "c", "n", "i", "c">>
\* The barn
TitleBarn ==
    <<"T", "h", "e", " ", "b", "a", "r", "n">>

(* ------------------------------------------------------------ input data *)
Photo(f, y, p, fam, k) ==
    [filename |-> f, year |-> y, people |-> p, famTitle |-> fam, kws |-> k]

\* The media rows, ORDER BY year DESC NULLS LAST.
PhotoPool ==
    << Photo("p1", 1998, {"Ann Lee"}, FALSE, {"farm"}),
       Photo("p2", 1992, {},          TitleHasFamily(TitlePicnic), {"farm"}),
       Photo("p3", 1990, {"Bob Ray"}, FALSE, {"school"}),
       Photo("p4", 1990, {},          FALSE, {"farm", "school"}),
       Photo("p5", 1985, {},          TitleHasFamily(TitleBarn), {}),
       Photo("p6", 0,    {},          FALSE, {"farm"}) >>

Chapter(t, y, n, m, k) ==
    [title |-> t, tyear |-> y, len |-> n, mentions |-> m, kws |-> k]

ChapterPool ==
    { Chapter("Early years (1990)", 1990, 900, <<"Bob Ray">>, {"farm", "school"}),
      Chapter("Farm life",          0,    500, <<"Ann Lee">>, {"farm"}),
      Chapter("Early years (1990)", 1990, 300, <<>>,          {"school"}) }

HeroChoices == {None, "p3", "hero.jpg"}
MissingChoices == {{}, {"p1"}, {"p3"}, {"hero.jpg"}}
NameLists == {<<>>, <<"Ann Lee", "Bob Ray">>}

(* ---------------------------------------------------------------- helpers *)
Abs(x) == IF x < 0 THEN -x ELSE x
Min(a, b) == IF a < b THEN a ELSE b
Filenames(photos) == {photos[k].filename : k \in DOMAIN photos}

\* The subsequence of s at the positions in keep, in order.
RECURSIVE Pick(_, _, _)
Pick(s, keep, k) ==
    IF k > Len(s) THEN <<>>
    ELSE IF k \in keep THEN <<s[k]>> \o Pick(s, keep, k + 1)
    ELSE Pick(s, keep, k + 1)

SubCatalogs(n) ==
    {Pick(PhotoPool, keep, 1) :
        keep \in {K \in SUBSET (1..Len(PhotoPool)) : Cardinality(K) <= n}}

ChapterLists(pool, n) == UNION {[1..m -> pool] : m \in 1..n}

(* ------------------------------------------------- _get_safe_photo_path *)
Resolves(filename, miss) == filename \notin miss

(* --------------------------------------------- _match_photos_to_chapter *)
YearTermNearOnly(chapter_year, photo_year) ==
    IF chapter_year # 0 /\ photo_year # 0
    THEN IF Abs(photo_year - chapter_year) <= YearNearDiff THEN YearExactScore ELSE 0
    ELSE 0

\* lines 458-466; a year of 0 stands for None (and is falsy).
YearTerm(chapter_year, photo_year) ==
    IF chapter_year # 0 /\ photo_year # 0
    THEN LET year_diff == Abs(photo_year - chapter_year)
         IN  IF year_diff = 0 THEN YearExactScore
             ELSE IF year_diff <= YearNearDiff THEN YearNearScore
             ELSE IF year_diff <= YearFarDiff THEN YearFarScore
             ELSE 0
    ELSE 0

NameTerm(photo, chapter, names) ==
    NameScore * Cardinality({k \in DOMAIN names :
                    names[k] \in photo.people /\ names[k] \in Range(chapter.mentions)})

KeywordTerm(photo, chapter) ==
    KeywordScore * Cardinality(chapter.kws \cap photo.kws)

Score(photo, chapter, names) ==
    YearTerm(chapter.tyear, photo.year) + NameTerm(photo, chapter, names)
        + KeywordTerm(photo, chapter)

EligibleSkipNone(photo, used) == TRUE
Eligible(photo, used) == photo.filename \notin used

QualifiesAny(score) == score >= 0
\* if score > 0 (line 482)
Qualifies(score) == score > 0

RECURSIVE ScoredPhotos(_, _, _, _, _)
ScoredPhotos(chapter, photos, used, names, k) ==
    IF k > Len(photos) THEN <<>>
    ELSE LET photo == photos[k]
             score == Score(photo, chapter, names)
         IN  (IF Eligible(photo, used) /\ Qualifies(score)
              THEN <<[score |-> score, photo |-> photo]>> ELSE <<>>)
             \o ScoredPhotos(chapter, photos, used, names, k + 1)

\* list.sort(reverse=True, key=score): stable, descending.
RECURSIVE InsertByScore(_, _)
InsertByScore(x, sorted) ==
    IF sorted = <<>> THEN <<x>>
    ELSE IF Head(sorted).score >= x.score
         THEN <<Head(sorted)>> \o InsertByScore(x, Tail(sorted))
         ELSE <<x>> \o sorted

SortByScoreNone(s) == s
RECURSIVE SortByScore(_)
SortByScore(s) ==
    IF s = <<>> THEN <<>>
    ELSE InsertByScore(s[Len(s)], SortByScore(SubSeq(s, 1, Len(s) - 1)))

TopMatchesAll(sorted, n) == sorted
TopMatches(sorted, n) == SubSeq(sorted, 1, Min(n, Len(sorted)))

\* scored_photos after the sort (line 486); nothing is scored when the
\* catalog is empty (lines 442-443).
SortedScored(chapter, photos, used, names) ==
    IF photos = <<>> THEN <<>>
    ELSE SortByScore(ScoredPhotos(chapter, photos, used, names, 1))

MatchPhotos(chapter, photos, used, names, n) ==
    IF photos = <<>> THEN <<>>
    ELSE LET top == TopMatches(SortByScore(ScoredPhotos(chapter, photos, used, names, 1)), n)
         IN  [k \in 1..Len(top) |-> top[k].photo]

MarkUsedNothing(used, selected) == used
MarkUsedFirst(used, selected) ==
    IF selected = <<>> THEN used ELSE used \cup {selected[1].filename}
MarkUsed(used, selected) == used \cup Filenames(selected)

(* ------------------------------------------------------ _highlight_names *)
\* Every pass of a configured name over the narrative wraps each of its
\* occurrences in <span class="highlight-name">...</span>; a name listed twice
\* wraps its occurrences twice.
HighlightHits(chapter, names) ==
    Cardinality({k \in DOMAIN names : names[k] \in Range(chapter.mentions)})

HighlightedLength(chapter, names) ==
    chapter.len + SpanOverhead * HighlightHits(chapter, names)

(* -------------------------------------------------- _create_photo_layout *)
RECURSIVE ResolvedFiles(_, _)
ResolvedFiles(files, miss) ==
    IF files = <<>> THEN <<>>
    ELSE (IF Resolves(Head(files), miss) THEN <<Head(files)>> ELSE <<>>)
         \o ResolvedFiles(Tail(files), miss)

FileSeq(photos) == [k \in 1..Len(photos) |-> photos[k].filename]

(* -------------------------------------------------- _create_chapter_html *)
ChooseLayoutInclusive(num_photos, text_length) ==
    IF num_photos >= 2 THEN "grid"
    ELSE IF num_photos = 1 /\ text_length >= FacingMinLen THEN "facing"
    ELSE IF num_photos = 1 /\ text_length >= EmbedMinLen THEN "embedded"
    ELSE "simple"
ChooseLayoutNoEmbed(num_photos, text_length) ==
    IF num_photos = 1 /\ text_length > FacingMinLen THEN "facing"
    ELSE IF num_photos >= 2 THEN "grid"
    ELSE "simple"
ChooseLayout(num_photos, text_length) ==
    IF num_photos > 0 /\ num_photos = 1 /\ text_length > FacingMinLen THEN "facing"
    ELSE IF num_photos > 0 /\ num_photos >= 2 THEN "grid"
    ELSE IF num_photos > 0 /\ num_photos = 1 /\ text_length > EmbedMinLen THEN "embedded"
    ELSE "simple"

GridPhotosAll(photos) == photos
GridPhotos(photos) == SubSeq(photos, 1, Min(GridCap, Len(photos)))

\* layout: the branch taken; grid: the files handed to _create_photo_layout;
\* images: the files whose <img> is written; text: whether the narrative
\* paragraphs are written.
CreateChapterHtml(chapter, photos, names, miss) ==
    LET layout == ChooseLayout(Len(photos), HighlightedLength(chapter, names))
    IN  IF layout = "facing"
        THEN IF Resolves(photos[1].filename, miss)
             THEN [title |-> chapter.title, layout |-> layout, grid |-> <<>>,
                   images |-> <<photos[1].filename>>, text |-> TRUE]
             ELSE [title |-> chapter.title, layout |-> layout, grid |-> <<>>, images |-> <<>>, text |-> FALSE]
        ELSE IF layout = "grid"
        THEN [title |-> chapter.title, layout |-> layout, grid |-> FileSeq(GridPhotos(photos)),
              images |-> ResolvedFiles(FileSeq(GridPhotos(photos)), miss), text |-> TRUE]
        ELSE IF layout = "embedded"
        THEN [title |-> chapter.title, layout |-> layout, grid |-> <<>>,
              images |-> ResolvedFiles(<<photos[1].filename>>, miss), text |-> TRUE]
        ELSE [title |-> chapter.title, layout |-> layout, grid |-> FileSeq(photos),
              images |-> ResolvedFiles(FileSeq(photos), miss), text |-> TRUE]

(* --------------------------------- generate_biography_pdf: cover selection *)
\* Positions of the catalog photos the auto-selection loop accepts: a tagged
\* person or "family" in the title, and a file that resolves.
CoverCandidates(photos, miss) ==
    {k \in DOMAIN photos :
        /\ (photos[k].people # {} \/ photos[k].famTitle)
        /\ Resolves(photos[k].filename, miss)}

SmallestOf(S) == CHOOSE k \in S : \A j \in S : k <= j

SelectCoverFirstPhoto(hero, photos, miss) ==
    IF hero # None
    THEN [cover |-> IF Resolves(hero, miss) THEN hero ELSE None, marked |-> {}]
    ELSE IF photos # <<>> /\ Resolves(photos[1].filename, miss)
    THEN [cover |-> photos[1].filename, marked |-> {photos[1].filename}]
    ELSE [cover |-> None, marked |-> {}]

\* cover: the file shown on the cover (None: no image); marked: the filenames
\* the selection adds to used_images.
SelectCover(hero, photos, miss) ==
    IF hero # None
    THEN [cover |-> IF Resolves(hero, miss) THEN hero ELSE None, marked |-> {}]
    ELSE IF photos # <<>>
    THEN IF CoverCandidates(photos, miss) # {}
         THEN LET f == photos[SmallestOf(CoverCandidates(photos, miss))].filename
              IN  [cover |-> f, marked |-> {f}]
         ELSE IF Resolves(photos[1].filename, miss)
         THEN [cover |-> photos[1].filename, marked |-> {photos[1].filename}]
         ELSE [cover |-> None, marked |-> {}]
    ELSE [cover |-> None, marked |-> {}]

(* ------------------------- module-level generate_biography_pdf: the names *)
RECURSIVE Dedup(_, _)
Dedup(s, seen) ==
    IF s = <<>> THEN <<>>
    ELSE IF Head(s) \in seen THEN Dedup(Tail(s), seen)
    ELSE <<Head(s)>> \o Dedup(Tail(s), seen \cup {Head(s)})

RECURSIVE CollectNames(_, _)
CollectNames(chs, k) ==
    IF k > Len(chs) THEN <<>>
    ELSE SubSeq(chs[k].mentions, 1, Min(LegacyNamesPerChapter, Len(chs[k].mentions)))
         \o CollectNames(chs, k + 1)

\* list(set(family_names))[:5]: the iteration order of a set of strings depends
\* on the interpreter's per-process string hashing, so which names survive the
\* cut is any LegacyNameCap of them.  (The order of the kept names changes no
\* score and no length here, so one order stands for all.)
LegacyFamilyNames(chs) ==
    LET distinct == Dedup(CollectNames(chs, 1), {})
        n == Min(LegacyNameCap, Len(distinct))
    IN  {Pick(distinct, keep, 1) :
            keep \in {K \in SUBSET (1..Len(distinct)) : Cardinality(K) = n}}

(* ------------------------------------------------------------ operations *)
EmptyDict == [t \in {} |-> None]

Result ==
    [cover |-> cover,
     toc |-> [k \in 1..Len(toc_photos) |-> FileSeq(toc_photos[k])],
     entries |-> toc_entries,
     photos |-> [k \in 1..Len(chapter_photos) |-> FileSeq(chapter_photos[k])],
     layouts |-> [k \in 1..Len(chapter_html) |-> chapter_html[k].layout]]

Inputs == <<chapters, chapters_type, catalog, hero_photo, missing, argNames, entry,
            max_photos, db, text, max_length>>

\* State of the other entry points, which a call of this one leaves alone.
Apart == <<pull_quote, runs, connection>>

\* lines 690-723 (and 864-885 for the module-level function, which builds a
\* fresh generator and passes the names it derived).
\* lines 699-723: the rows of the query, or nothing when it raises.
LoadPhotosPartial(conn, rows) ==
    IF conn = "ok" THEN rows ELSE SubSeq(rows, 1, Min(1, Len(rows)))
LoadPhotos(conn, rows) == IF conn = "ok" THEN rows ELSE <<>>

StartNames ==
    IF entry \in {"legacy", "route"}
    THEN LegacyFamilyNames(chapters)
    ELSE {IF argNames # <<>> THEN argNames ELSE family_names}

\* The argument types with which the call gets as far as the cover: the
\* method only takes len(chapters) (line 697); the legacy function indexes
\* every element first (lines 866-867).
Startable(how) == IF how = "method" THEN {"list", "str"} ELSE {"list"}

Start ==
    /\ entry \in {"method", "legacy", "route"}
    /\ chapters_type \in Startable(entry)
    /\ pc \in {"start", "done"}
    /\ calls > 0
    /\ calls' = calls - 1
    /\ prev' = IF pc = "done" THEN {Result} ELSE prev
    /\ \E names \in StartNames : family_names' = names
    /\ used_images' = {}
    /\ available_photos' = LoadPhotos(db, catalog)
    /\ scored_photos' = <<>>
    /\ outcome' = "none"
    /\ cover' = None
    /\ toc_photos' = <<>>
    /\ chapter_thumbnails' = EmptyDict
    /\ toc_entries' = <<>>
    /\ chapter_photos' = <<>>
    /\ chapter_html' = <<>>
    /\ i' = 1
    /\ pc' = "cover"
    /\ UNCHANGED <<Inputs, Apart>>

\* lines 739-764
Cover ==
    /\ pc = "cover"
    /\ LET c == SelectCover(hero_photo, available_photos, missing)
       IN  /\ cover' = c.cover
           /\ used_images' = used_images \cup c.marked
    /\ pc' = "toc"
    /\ i' = 1
    /\ UNCHANGED <<Inputs, Apart, calls, prev, family_names, available_photos,
                   toc_photos, chapter_thumbnails, toc_entries, chapter_photos,
                   chapter_html, scored_photos, outcome>>

DictPut(d, key, val) ==
    [t \in DOMAIN d \cup {key} |-> IF t = key THEN val ELSE d[t]]

\* lines 779-789, one iteration
TocMatch ==
    /\ pc = "toc"
    /\ chapters_type = "list"
    /\ i <= Len(chapters)
    /\ LET sel == MatchPhotos(chapters[i], available_photos, used_images,
                              family_names, TocMaxPhotos)
       IN  /\ toc_photos' = Append(toc_photos, sel)
           /\ used_images' = MarkUsed(used_images, sel)
           /\ chapter_thumbnails' =
                IF sel # <<>> /\ Resolves(sel[1].filename, missing)
                THEN DictPut(chapter_thumbnails, chapters[i].title, sel[1].filename)
                ELSE chapter_thumbnails
    /\ scored_photos' = SortedScored(chapters[i], available_photos, used_images,
                                     family_names)
    /\ i' = i + 1
    /\ UNCHANGED <<Inputs, Apart, calls, prev, pc, family_names, available_photos,
                   cover, toc_entries, chapter_photos, chapter_html, outcome>>

TocEntryListReversed(chs, thumbs) ==
    [k \in 1..Len(chs) |->
        [title |-> chs[Len(chs) + 1 - k].title, thumbnail |-> None]]

\* One entry per chapter, in the order of the list: its title and, when the
\* dict has that title, the thumbnail (lines 792-806).
TocEntryList(chs, thumbs) ==
    [k \in 1..Len(chs) |->
        [title |-> chs[k].title,
         thumbnail |-> IF chs[k].title \in DOMAIN thumbs
                       THEN thumbs[chs[k].title] ELSE None]]

\* lines 791-808
TocEntries ==
    /\ pc = "toc"
    /\ chapters_type = "list"
    /\ i > Len(chapters)
    /\ toc_entries' = TocEntryList(chapters, chapter_thumbnails)
    /\ pc' = "chapters"
    /\ i' = 1
    /\ UNCHANGED <<Inputs, Apart, calls, prev, family_names, used_images,
                   available_photos, cover, toc_photos, chapter_thumbnails,
                   chapter_photos, chapter_html, scored_photos, outcome>>

\* lines 811-823, one iteration
ChapterStep ==
    /\ pc = "chapters"
    /\ i <= Len(chapters)
    /\ LET sel == MatchPhotos(chapters[i], available_photos, used_images,
                              family_names, ChapterMaxPhotos)
       IN  /\ chapter_photos' = Append(chapter_photos, sel)
           /\ used_images' = MarkUsed(used_images, sel)
           /\ chapter_html' = Append(chapter_html,
                  CreateChapterHtml(chapters[i], sel, family_names, missing))
    /\ scored_photos' = SortedScored(chapters[i], available_photos, used_images,
                                     family_names)
    /\ i' = i + 1
    /\ UNCHANGED <<Inputs, Apart, calls, prev, pc, family_names, available_photos,
                   cover, toc_photos, chapter_thumbnails, toc_entries, outcome>>

\* What the caller gets from lines 830-844: the buffer, or the exception of
\* write_pdf, which nothing in the method or the module-level function catches
\* (the route turns it into an error response, lines 61-67 of the route).
RenderOutcomePartial(ok) == "pdf"
RenderOutcome(ok) == IF ok THEN "pdf" ELSE "error"

\* lines 825-844
Render ==
    /\ pc = "chapters"
    /\ i > Len(chapters)
    /\ \E ok \in BOOLEAN :
          /\ pc' = IF ok THEN "done" ELSE "failed_render"
          /\ outcome' = RenderOutcome(ok)
    /\ UNCHANGED <<Inputs, Apart, calls, prev, i, family_names, used_images,
                   available_photos, cover, toc_photos, chapter_thumbnails,
                   toc_entries, chapter_photos, chapter_html, scored_photos>>

\* After BiographyPDFGenerator.__init__ (lines 28-32), before the call.
NoRuns == <<>>
NoText == <<>>

\* A caller that passes its own connection, as the route does (route, lines
\* 40-49): should_close stays False (line 854) and nothing is opened.
NoConnection ==
    [given |-> "supplied", db_file |-> "absent", db_connection |-> "supplied",
     should_close |-> FALSE, open |-> {"supplied"}, closed |-> {}]

\* Everything but the position and the given variables idle.
InitIdle(entryName, position) ==
    /\ entry = entryName
    /\ pc = position
    /\ hero_photo = None
    /\ missing = {}
    /\ argNames = <<>>
    /\ calls = 0
    /\ i = 1
    /\ cover = None
    /\ toc_photos = <<>>
    /\ chapter_thumbnails = EmptyDict
    /\ toc_entries = <<>>
    /\ chapter_photos = <<>>
    /\ chapter_html = <<>>
    /\ prev = {}
    /\ db = "ok"
    /\ scored_photos = <<>>
    /\ outcome = "none"

InitRun(chapterLists, missings, entries, ncalls, dbs) ==
    /\ chapters \in chapterLists
    /\ chapters_type = "list"
    /\ catalog \in SubCatalogs(MaxCatalog)
    /\ hero_photo \in HeroChoices
    /\ missing \in missings
    /\ argNames \in NameLists
    /\ entry \in entries
    /\ calls = ncalls
    /\ max_photos = ChapterMaxPhotos
    /\ pc = "start"
    /\ i = 1
    /\ family_names = <<>>
    /\ used_images = {}
    /\ available_photos = <<>>
    /\ cover = None
    /\ toc_photos = <<>>
    /\ chapter_thumbnails = EmptyDict
    /\ toc_entries = <<>>
    /\ chapter_photos = <<>>
    /\ chapter_html = <<>>
    /\ prev = {}
    /\ db \in dbs
    /\ scored_photos = <<>>
    /\ outcome = "none"
    /\ text = NoText
    /\ max_length = 0
    /\ pull_quote = None
    /\ runs = NoRuns
    /\ connection = NoConnection

Init ==
    InitRun(ChapterLists(ChapterPool, MaxChapters), MissingChoices, {"method"}, 1, {"ok"})

Next == Start \/ Cover \/ TocMatch \/ TocEntries \/ ChapterStep \/ Render

Spec == Init /\ [][Next]_vars

(* ---------------------------------------- the same call made twice in a row *)
\* Three chapters that name six different people between them.
NamedChapters ==
    << Chapter("Parents",      0, 500, <<"Ann Lee", "Bob Ray">>, {}),
       Chapter("Grandparents", 0, 500, <<"Cy Orr", "Dee Fox">>,  {}),
       Chapter("Cousins",      0, 500, <<"Eve Kim", "Gus Hsu">>, {}) >>

InitTwice == InitRun({NamedChapters}, {{}}, {"method", "legacy"}, 2, {"ok"})

SpecTwice == InitTwice /\ [][Next]_vars

(* ------------------------ one direct call of the matcher, then of the layout *)
UnitLens == {364, 400, 764, 765, 800, 801}

UnitChapters ==
    {Chapter("Early years (1990)", 1990, n, m, {"farm", "school"}) :
        n \in UnitLens, m \in {<<>>, <<"Ann Lee">>}}

\* _match_photos_to_chapter(title, text, available_photos, max_photos)
UnitMatch ==
    /\ entry = "unit"
    /\ pc = "match"
    /\ LET sel == MatchPhotos(chapters[1], available_photos, used_images,
                              family_names, max_photos)
       IN  /\ chapter_photos' = <<sel>>
           /\ used_images' = MarkUsed(used_images, sel)
    /\ scored_photos' = SortedScored(chapters[1], available_photos, used_images,
                                     family_names)
    /\ pc' = "layout"
    /\ UNCHANGED <<Inputs, Apart, calls, prev, i, family_names, available_photos,
                   cover, toc_photos, chapter_thumbnails, toc_entries, chapter_html,
                   outcome>>

\* _create_chapter_html(chapter, photos, upload_folder)
UnitLayout ==
    /\ entry = "unit"
    /\ pc = "layout"
    /\ chapter_html' = <<CreateChapterHtml(chapters[1], chapter_photos[1],
                                           family_names, missing)>>
    /\ pc' = "done"
    /\ UNCHANGED <<Inputs, Apart, calls, prev, i, family_names, used_images,
                   available_photos, cover, toc_photos, chapter_thumbnails, toc_entries,
                   chapter_photos, scored_photos, outcome>>

\* A generator after cover selection: the used set holds the cover photo, if any.
InitUnit ==
    /\ chapters \in {<<c>> : c \in UnitChapters}
    /\ chapters_type = "list"
    /\ catalog \in SubCatalogs(Len(PhotoPool))
    /\ available_photos = catalog
    /\ hero_photo = None
    /\ missing \in {{}, {"p3"}}
    /\ argNames = <<>>
    /\ entry = "unit"
    /\ calls = 0
    /\ max_photos \in 1..MaxPhotosArg
    /\ pc = "match"
    /\ i = 1
    /\ family_names \in NameLists
    /\ cover \in {None, "p4"}
    /\ used_images = IF cover = None THEN {} ELSE {cover}
    /\ toc_photos = <<>>
    /\ chapter_thumbnails = EmptyDict
    /\ toc_entries = <<>>
    /\ chapter_photos = <<>>
    /\ chapter_html = <<>>
    /\ prev = {}
    /\ db = "ok"
    /\ scored_photos = <<>>
    /\ outcome = "none"
    /\ text = NoText
    /\ max_length = 0
    /\ pull_quote = None
    /\ runs = NoRuns
    /\ connection = NoConnection

NextUnit == UnitMatch \/ UnitLayout

SpecUnit == InitUnit /\ [][NextUnit]_vars

(* ------------------------------------------ a media query that may raise *)
InitDegraded ==
    InitRun(ChapterLists(ChapterPool, MaxChapters), {{}}, {"method"}, 1, {"ok", "fails"})

SpecDegraded == InitDegraded /\ [][Next]_vars

(* -------------------------------------- cover selection with missing files *)
CoverMissingChoices == {{}, {"p1"}, {"p4"}, {"p1", "p2", "p3"}}

InitCover ==
    InitRun(ChapterLists(ChapterPool, 1), CoverMissingChoices, {"method"}, 1, {"ok", "fails"})

SpecCover == InitCover /\ [][Next]_vars

(* ----------------------------------------- chapter input that is not valid *)
\* not chapters (route, line 11)
Falsy(type, chs) == IF type = "list" THEN chs = <<>> ELSE type = "NoneType"

\* session.get('biography_draft') (route, line 13)
SessionDrafts ==
    { [present |-> FALSE, chapters |-> <<>>],
      [present |-> TRUE,  chapters |-> <<>>],
      [present |-> TRUE,  chapters |-> <<Chapter("Farm life", 0, 500, <<>>, {"farm"})>>] }

\* Route, lines 5-27: an absent or empty chapter list is replaced by the
\* session draft's, if there is one; anything but a non-empty list is
\* answered with status 400.
RouteValidate ==
    /\ entry = "route"
    /\ pc = "route"
    /\ \E draft \in SessionDrafts :
          LET fallback == Falsy(chapters_type, chapters) /\ draft.present
              type == IF fallback THEN "list" ELSE chapters_type
              chs == IF fallback THEN draft.chapters ELSE chapters
              valid == IF type = "list" THEN chs # <<>> ELSE FALSE
          IN  /\ chapters' = chs
              /\ chapters_type' = type
              /\ pc' = IF valid THEN "start" ELSE "rejected"
              /\ outcome' = IF valid THEN "none" ELSE "400"
    /\ UNCHANGED <<catalog, hero_photo, missing, argNames, entry, max_photos, db,
                   text, max_length, Apart, calls, prev, i, family_names,
                   used_images, available_photos, cover, toc_photos,
                   chapter_thumbnails, toc_entries, chapter_photos, chapter_html,
                   scored_photos>>

\* A call that raises TypeError before the cover: len(None) in the method
\* (line 697, after the reset of line 695); iterating None or indexing a
\* character in the legacy function (lines 865-867).
StartInvalid ==
    /\ entry \in {"method", "legacy"}
    /\ chapters_type \notin Startable(entry)
    /\ pc = "start"
    /\ calls > 0
    /\ calls' = calls - 1
    /\ used_images' = {}
    /\ pc' = "failed_input"
    /\ outcome' = "error"
    /\ UNCHANGED <<Inputs, Apart, prev, i, family_names, available_photos, cover,
                   toc_photos, chapter_thumbnails, toc_entries, chapter_photos,
                   chapter_html, scored_photos>>

\* The TOC loop over something that is not a list of dicts: chapter['title']
\* raises TypeError (line 780), after the cover has been selected.
TocRaise ==
    /\ pc = "toc"
    /\ chapters_type # "list"
    /\ pc' = "failed_input"
    /\ outcome' = "error"
    /\ UNCHANGED <<Inputs, Apart, calls, prev, i, family_names, used_images,
                   available_photos, cover, toc_photos, chapter_thumbnails,
                   toc_entries, chapter_photos, chapter_html, scored_photos>>

\* The chapter argument: a list (possibly empty), None, or a string.
ChapterInputs ==
    {[type |-> "list", chapters |-> chs] :
        chs \in {<<>>} \cup ChapterLists(ChapterPool, 1)}
    \cup {[type |-> "NoneType", chapters |-> <<>>], [type |-> "str", chapters |-> <<>>]}

InitInput ==
    /\ \E given \in ChapterInputs :
          /\ chapters = given.chapters
          /\ chapters_type = given.type
    /\ catalog \in SubCatalogs(MaxCatalog)
    /\ hero_photo = None
    /\ missing = {}
    /\ argNames = <<>>
    /\ entry \in {"route", "legacy", "method"}
    /\ calls = 1
    /\ max_photos = ChapterMaxPhotos
    /\ pc = IF entry = "route" THEN "route" ELSE "start"
    /\ i = 1
    /\ family_names = <<>>
    /\ used_images = {}
    /\ available_photos = <<>>
    /\ cover = None
    /\ toc_photos = <<>>
    /\ chapter_thumbnails = EmptyDict
    /\ toc_entries = <<>>
    /\ chapter_photos = <<>>
    /\ chapter_html = <<>>
    /\ prev = {}
    /\ db = "ok"
    /\ scored_photos = <<>>
    /\ outcome = "none"
    /\ text = NoText
    /\ max_length = 0
    /\ pull_quote = None
    /\ runs = NoRuns
    /\ connection = NoConnection

NextInput ==
    RouteValidate \/ StartInvalid \/ Start \/ Cover \/ TocMatch \/ TocRaise
        \/ TocEntries \/ ChapterStep \/ Render

SpecInput == InitInput /\ [][NextInput]_vars

(* ------------------ the module-level function and the database connection *)
\* What the caller passes as db_connection and what is at DATABASE_PATH:
\* a file sqlite3.connect opens, no file, or a file on which it raises.
CallerConnections ==
    { [given |-> g, db_file |-> f, db_connection |-> g, should_close |-> FALSE,
       open |-> IF g = None THEN {} ELSE {g}, closed |-> {}] :
          g \in {None, "supplied"}, f \in {"exists", "absent", "unreadable"} }

\* lines 854-862: without a connection from the caller, one is opened if the
\* database file exists; an exception of sqlite3.connect is logged.
OpenConnection(c) ==
    IF c.db_connection = None /\ c.db_file = "exists"
    THEN [c EXCEPT !.db_connection = "opened", !.should_close = TRUE,
                   !.open = @ \cup {"opened"}]
    ELSE [c EXCEPT !.should_close = FALSE]

\* lines 886-889: the finally clause around the generator call
CloseConnection(c) ==
    IF c.should_close /\ c.db_connection # None
    THEN [c EXCEPT !.open = @ \ {c.db_connection},
                   !.closed = @ \cup {c.db_connection}]
    ELSE c

\* line 701: what the generator's query meets
QueryChoices(c) ==
    IF OpenConnection(c).db_connection = None THEN {"none"} ELSE {"ok", "fails"}

LegacyOpen ==
    /\ entry = "legacy"
    /\ pc = "open"
    /\ connection' = OpenConnection(connection)
    /\ pc' = "start"
    /\ UNCHANGED <<Inputs, pull_quote, runs, calls, prev, i, family_names, used_images,
                   available_photos, cover, toc_photos, chapter_thumbnails,
                   toc_entries, chapter_photos, chapter_html, scored_photos,
                   outcome>>

\* The generator call has returned (pc "done") or raised (pc "failed_render");
\* the finally clause runs on both.
LegacyFinally ==
    /\ entry = "legacy"
    /\ pc \in {"done", "failed_render"}
    /\ connection' = CloseConnection(connection)
    /\ pc' = IF pc = "done" THEN "returned" ELSE "raised"
    /\ UNCHANGED <<Inputs, pull_quote, runs, calls, prev, i, family_names, used_images,
                   available_photos, cover, toc_photos, chapter_thumbnails,
                   toc_entries, chapter_photos, chapter_html, scored_photos,
                   outcome>>

InitClose ==
    /\ entry = "legacy"
    /\ pc = "open"
    /\ hero_photo = None
    /\ missing = {}
    /\ argNames = <<>>
    /\ i = 1
    /\ cover = None
    /\ toc_photos = <<>>
    /\ chapter_thumbnails = EmptyDict
    /\ toc_entries = <<>>
    /\ chapter_photos = <<>>
    /\ chapter_html = <<>>
    /\ prev = {}
    /\ scored_photos = <<>>
    /\ outcome = "none"
    /\ \E given \in ChapterInputs :
          /\ chapters = given.chapters
          /\ chapters_type = given.type
    /\ catalog \in SubCatalogs(MaxCatalog)
    /\ calls = 1
    /\ connection \in CallerConnections
    /\ db \in QueryChoices(connection)
    /\ max_photos = ChapterMaxPhotos
    /\ family_names = <<>>
    /\ used_images = {}
    /\ available_photos = <<>>
    /\ text = NoText
    /\ max_length = 0
    /\ pull_quote = None
    /\ runs = NoRuns

NextClose ==
    LegacyOpen \/ StartInvalid \/ Start \/ Cover \/ TocMatch \/ TocEntries
        \/ ChapterStep \/ Render \/ LegacyFinally

SpecClose == InitClose /\ [][NextClose]_vars

(* ------------------------------------- calls that run at the same time *)
\* Two requests served at once, each a call of the module-level function.
RunIds == {1, 2}

\* The local variables of one call.
IdleCall ==
    [pc |-> "start", i |-> 1, generator |-> 0, family_names |-> <<>>,
     available_photos |-> <<>>, cover |-> None, toc_photos |-> <<>>,
     chapter_photos |-> <<>>]

\* generator = BiographyPDFGenerator() (line 874): a new object for every
\* call, named here by the call that made it.
NewGeneratorShared(r) == 1
NewGenerator(r) == r

\* What the calls do not touch.
Sequential ==
    <<calls, prev, pc, i, family_names, used_images, available_photos, cover,
      toc_photos, chapter_thumbnails, toc_entries, chapter_photos, chapter_html,
      scored_photos, outcome, pull_quote, connection>>

\* lines 864-874, 28-32, 690-723: names, new generator, reset, catalog load
ConcStart ==
    /\ entry = "concurrent"
    /\ \E r \in RunIds :
          /\ runs.calls[r].pc = "start"
          /\ \E names \in LegacyFamilyNames(chapters) :
                LET g == NewGenerator(r)
                IN  runs' = [runs EXCEPT
                        !.calls[r] = [@ EXCEPT !.pc = "cover",
                                               !.generator = g,
                                               !.family_names = names,
                                               !.available_photos = LoadPhotos(db, catalog)],
                        !.used_images[g] = {}]
    /\ UNCHANGED <<Inputs, Sequential>>

\* lines 739-764
ConcCover ==
    /\ entry = "concurrent"
    /\ \E r \in RunIds :
          LET c == runs.calls[r]
              sel == SelectCover(hero_photo, c.available_photos, missing)
          IN  /\ c.pc = "cover"
              /\ runs' = [runs EXCEPT
                     !.calls[r] = [@ EXCEPT !.pc = "toc", !.i = 1, !.cover = sel.cover],
                     !.used_images[c.generator] = @ \cup sel.marked]
    /\ UNCHANGED <<Inputs, Sequential>>

\* lines 779-789, one iteration
ConcToc ==
    /\ entry = "concurrent"
    /\ \E r \in RunIds :
          LET c == runs.calls[r]
              sel == MatchPhotos(chapters[c.i], c.available_photos,
                                 runs.used_images[c.generator], c.family_names,
                                 TocMaxPhotos)
              last == c.i = Len(chapters)
          IN  /\ c.pc = "toc"
              /\ runs' = [runs EXCEPT
                     !.calls[r] = [@ EXCEPT !.pc = IF last THEN "chapters" ELSE "toc",
                                            !.i = IF last THEN 1 ELSE c.i + 1,
                                            !.toc_photos = Append(@, sel)],
                     !.used_images[c.generator] = MarkUsed(@, sel)]
    /\ UNCHANGED <<Inputs, Sequential>>

\* lines 811-823, one iteration
ConcChapter ==
    /\ entry = "concurrent"
    /\ \E r \in RunIds :
          LET c == runs.calls[r]
              sel == MatchPhotos(chapters[c.i], c.available_photos,
                                 runs.used_images[c.generator], c.family_names,
                                 ChapterMaxPhotos)
              last == c.i = Len(chapters)
          IN  /\ c.pc = "chapters"
              /\ runs' = [runs EXCEPT
                     !.calls[r] = [@ EXCEPT !.pc = IF last THEN "done" ELSE "chapters",
                                            !.i = c.i + 1,
                                            !.chapter_photos = Append(@, sel)],
                     !.used_images[c.generator] = MarkUsed(@, sel)]
    /\ UNCHANGED <<Inputs, Sequential>>

InitConc ==
    /\ InitIdle("concurrent", "idle")
    /\ chapters \in ChapterLists(ChapterPool, MaxChapters)
    /\ chapters_type = "list"
    /\ catalog \in SubCatalogs(MaxCatalog)
    /\ available_photos = <<>>
    /\ max_photos = ChapterMaxPhotos
    /\ family_names = <<>>
    /\ used_images = {}
    /\ text = NoText
    /\ max_length = 0
    /\ pull_quote = None
    /\ runs = [calls |-> [r \in RunIds |-> IdleCall],
               used_images |-> [g \in RunIds |-> {}],
               used_images_global |-> {}]
    /\ connection = NoConnection

NextConc == ConcStart \/ ConcCover \/ ConcToc \/ ConcChapter

SpecConc == InitConc /\ [][NextConc]_vars

(* ------------------------------------------------------ _extract_pull_quote *)
\* Texts are sequences of characters.
QuoteMinLen == 30
FallbackMinLen == 40
DefaultMaxLength == 150
MaxSentences == 3

Terminators == {".", "!", "?"}
Whitespace == {" ", "\n", "\t"}
QuoteMarks == {"\"", "'", "!"}

EmotionalWords ==
    { <<"l", "o", "v", "e">>,
      <<"r", "e", "m", "e", "m", "b", "e", "r">>,
      <<"n", "e", "v", "e", "r">>,
      <<"a", "l", "w", "a", "y", "s">>,
      <<"f", "i", "r", "s", "t">> }

\* re.split(r'[.!?]+', text): the pieces between the runs of terminators, the
\* empty ones at either end included.
SplitSentences(s) ==
    LET stops == {k \in DOMAIN s : s[k] \in Terminators}
        runStarts == {k \in stops : (k - 1) \notin stops}
        runEnds == {k \in stops : (k + 1) \notin stops}
        Nth(S, j) == CHOOSE k \in S : Cardinality({x \in S : x < k}) = j - 1
        n == Cardinality(runStarts)
    IN  [j \in 1..(n + 1) |->
            SubSeq(s, IF j = 1 THEN 1 ELSE Nth(runEnds, j - 1) + 1,
                      IF j = n + 1 THEN Len(s) ELSE Nth(runStarts, j) - 1)]

\* str.strip()
RECURSIVE StripLeft(_)
StripLeft(s) ==
    IF s # <<>> /\ Head(s) \in Whitespace THEN StripLeft(Tail(s)) ELSE s

RECURSIVE StripRight(_)
StripRight(s) ==
    IF s # <<>> /\ s[Len(s)] \in Whitespace
    THEN StripRight(SubSeq(s, 1, Len(s) - 1)) ELSE s

Strip(s) == StripRight(StripLeft(s))

\* lines 502-504
Emotional(clean) ==
    \/ \E k \in DOMAIN clean : clean[k] \in QuoteMarks
    \/ \E word \in EmotionalWords : Contains(Lower(clean), word)

\* lines 495-513
ExtractPullQuote(txt, maxlen) ==
    LET sentences == SplitSentences(txt)
        clean(k) == Strip(sentences[k])
        first == {k \in DOMAIN sentences :
                     /\ QuoteMinLen < Len(clean(k))
                     /\ Len(clean(k)) < maxlen
                     /\ Emotional(clean(k))}
        fallback == {k \in DOMAIN sentences :
                        /\ FallbackMinLen < Len(clean(k))
                        /\ Len(clean(k)) < maxlen}
    IN  IF first # {} THEN clean(SmallestOf(first)) \o <<".">>
        ELSE IF fallback # {} THEN clean(SmallestOf(fallback)) \o <<".">>
        ELSE None

\* It was fine.
SentFine ==
    <<"I", "t", " ", "w", "a", "s", " ", "f", "i", "n", "e", ".">>

\* I will always remember that summer!
SentSummer ==
    <<"I", " ", "w", "i", "l", "l", " ", "a", "l", "w", "a", "y", "s", " ", "r", "e",
      "m", "e", "m", "b", "e", "r", " ", "t", "h", "a", "t", " ", "s", "u", "m", "m",
      "e", "r", "!">>

\* We laughed.
SentLaughed ==
    <<"W", "e", " ", "l", "a", "u", "g", "h", "e", "d", ".">>

\* The train left the old station before sunrise.
SentTrain ==
    <<"T", "h", "e", " ", "t", "r", "a", "i", "n", " ", "l", "e", "f", "t", " ", "t",
      "h", "e", " ", "o", "l", "d", " ", "s", "t", "a", "t", "i", "o", "n", " ", "b",
      "e", "f", "o", "r", "e", " ", "s", "u", "n", "r", "i", "s", "e", ".">>

\* He sold the boat to a man in town?
SentBoat ==
    <<"H", "e", " ", "s", "o", "l", "d", " ", "t", "h", "e", " ", "b", "o", "a", "t",
      " ", "t", "o", " ", "a", " ", "m", "a", "n", " ", "i", "n", " ", "t", "o", "w",
      "n", "?">>

\* She said "go" and walked out the door...
SentDoor ==
    <<"S", "h", "e", " ", "s", "a", "i", "d", " ", "\"", "g", "o", "\"", " ", "a",
      "n", "d", " ", "w", "a", "l", "k", "e", "d", " ", "o", "u", "t", " ", "t", "h",
      "e", " ", "d", "o", "o", "r", ".", ".", ".">>

\* We sold the boat to a man in town!
SentSold ==
    <<"W", "e", " ", "s", "o", "l", "d", " ", "t", "h", "e", " ", "b", "o", "a", "t",
      " ", "t", "o", " ", "a", " ", "m", "a", "n", " ", "i", "n", " ", "t", "o", "w",
      "n", "!">>

SentencePool ==
    {SentFine, SentSummer, SentLaughed, SentTrain, SentBoat, SentDoor, SentSold}

\* The sentences joined by single spaces.
RECURSIVE JoinSentences(_)
JoinSentences(ss) ==
    IF ss = <<>> THEN <<>>
    ELSE IF Len(ss) = 1 THEN ss[1]
    ELSE ss[1] \o <<" ">> \o JoinSentences(Tail(ss))

QuoteTexts ==
    {JoinSentences(ss) : ss \in UNION {[1..m -> SentencePool] : m \in 1..MaxSentences}}

\* _extract_pull_quote(text, max_length)
ExtractQuote ==
    /\ entry = "quote"
    /\ pc = "quote"
    /\ pull_quote' = ExtractPullQuote(text, max_length)
    /\ pc' = "done"
    /\ UNCHANGED <<Inputs, runs, connection, calls, prev, i, family_names, used_images,
                   available_photos, cover, toc_photos, chapter_thumbnails, toc_entries,
                   chapter_photos, chapter_html, scored_photos, outcome>>

InitQuote ==
    /\ InitIdle("quote", "quote")
    /\ text \in QuoteTexts
    /\ max_length \in {DefaultMaxLength, FallbackMinLen}
    /\ pull_quote = None
    /\ chapters = <<>>
    /\ chapters_type = "list"
    /\ catalog = <<>>
    /\ available_photos = <<>>
    /\ max_photos = ChapterMaxPhotos
    /\ family_names = <<>>
    /\ used_images = {}
    /\ runs = NoRuns
    /\ connection = NoConnection

NextQuote == ExtractQuote

SpecQuote == InitQuote /\ [][NextQuote]_vars

(* ------------------------------------------- year extraction and year term *)
Digits == <<"0", "1", "2", "3", "4", "5", "6", "7", "8", "9">>
IsDigit(c) == \E d \in DOMAIN Digits : Digits[d] = c
DigitValue(c) == (CHOOSE d \in DOMAIN Digits : Digits[d] = c) - 1

\* re.search(r'(\d{4})', chapter_title): the first four consecutive digits,
\* as an integer; 0 when there are none.
ExtractYear(title) ==
    LET starts == {k \in 1..(Len(title) - 3) : \A j \in k..(k + 3) : IsDigit(title[j])}
    IN  IF starts = {} THEN 0
        ELSE LET k == SmallestOf(starts)
             IN  1000 * DigitValue(title[k]) + 100 * DigitValue(title[k + 1])
                   + 10 * DigitValue(title[k + 2]) + DigitValue(title[k + 3])

\* Chapter (1990s)
TitleNineties ==
    <<"C", "h", "a", "p", "t", "e", "r", " ", "(", "1", "9", "9", "0", "s", ")">>
\* Early years (1990)
TitleEarly ==
    <<"E", "a", "r", "l", "y", " ", "y", "e", "a", "r", "s", " ", "(", "1", "9", "9", "0", ")">>
\* Farm life
TitleFarm ==
    <<"F", "a", "r", "m", " ", "l", "i", "f", "e">>
\* In 19905 we
TitleLong ==
    <<"I", "n", " ", "1", "9", "9", "0", "5", " ", "w", "e">>
\* Room 101 in 2001
TitleRoom ==
    <<"R", "o", "o", "m", " ", "1", "0", "1", " ", "i", "n", " ", "2", "0", "0", "1">>
\* Elm St 1993-1995
TitleRange ==
    <<"E", "l", "m", " ", "S", "t", " ", "1", "9", "9", "3", "-", "1", "9", "9", "5">>

ScoreTitles == {TitleNineties, TitleEarly, TitleFarm, TitleLong, TitleRoom, TitleRange}

\* Chapters with nothing but a title to match on.
ScoreChapters == {Chapter(t, ExtractYear(t), 300, <<>>, {}) : t \in ScoreTitles}

\* Photos with nothing but a year, ORDER BY year DESC NULLS LAST.
ScorePool ==
    << Photo("y2001", 2001, {}, FALSE, {}),
       Photo("y1998", 1998, {}, FALSE, {}),
       Photo("y1996", 1996, {}, FALSE, {}),
       Photo("y1995", 1995, {}, FALSE, {}),
       Photo("y1993", 1993, {}, FALSE, {}),
       Photo("y1992", 1992, {}, FALSE, {}),
       Photo("y1991", 1991, {}, FALSE, {}),
       Photo("y1990", 1990, {}, FALSE, {}),
       Photo("y1988", 1988, {}, FALSE, {}),
       Photo("y1987", 1987, {}, FALSE, {}),
       Photo("y1985", 1985, {}, FALSE, {}),
       Photo("y1984", 1984, {}, FALSE, {}),
       Photo("ynone", 0,    {}, FALSE, {}) >>

\* One or two candidate photos.
ScoreCatalogs ==
    {Pick(ScorePool, keep, 1) :
        keep \in {K \in SUBSET (1..Len(ScorePool)) : Cardinality(K) \in 1..2}}

InitScore ==
    /\ InitIdle("unit", "match")
    /\ chapters \in {<<c>> : c \in ScoreChapters}
    /\ chapters_type = "list"
    /\ catalog \in ScoreCatalogs
    /\ available_photos = catalog
    /\ max_photos \in {TocMaxPhotos, ChapterMaxPhotos}
    /\ family_names = <<>>
    /\ used_images = {}
    /\ text = NoText
    /\ max_length = 0
    /\ pull_quote = None
    /\ runs = NoRuns
    /\ connection = NoConnection

SpecScore == InitScore /\ [][NextUnit]_vars

(* -------------------------------------- the score, on the texts themselves *)
KeywordWindow == 500
KeywordMinLen == 4

\* Farm life (1990)
TitleFarmLife ==
    <<"F", "a", "r", "m", " ", "l", "i", "f", "e", " ", "(", "1", "9", "9", "0",
      ")">>
\* Ann Lee kept cows at the farm. The farm had a big barn.
TextFarmLife ==
    <<"A", "n", "n", " ", "L", "e", "e", " ", "k", "e", "p", "t", " ", "c", "o",
      "w", "s", " ", "a", "t", " ", "t", "h", "e", " ", "f", "a", "r", "m",
      ".", " ", "T", "h", "e", " ", "f", "a", "r", "m", " ", "h", "a", "d",
      " ", "a", " ", "b", "i", "g", " ", "b", "a", "r", "n", ".">>
\* School days
TitleSchool ==
    <<"S", "c", "h", "o", "o", "l", " ", "d", "a", "y", "s">>
\* BOB RAY walked to school
TextSchool ==
    <<"B", "O", "B", " ", "R", "A", "Y", " ", "w", "a", "l", "k", "e", "d", " ",
      "t", "o", " ", "s", "c", "h", "o", "o", "l">>
\* Later years
TitleLater ==
    <<"L", "a", "t", "e", "r", " ", "y", "e", "a", "r", "s">>
\* schoolyard harvest
TailLater ==
    <<"s", "c", "h", "o", "o", "l", "y", "a", "r", "d", " ", "h", "a", "r", "v",
      "e", "s", "t">>
\* Ann Lee
NameAnn ==
    <<"A", "n", "n", " ", "L", "e", "e">>
\* Bob Ray
NameBob ==
    <<"B", "o", "b", " ", "R", "a", "y">>
\* ANN LEE
NameAnnUpper ==
    <<"A", "N", "N", " ", "L", "E", "E">>

\* One-letter words: no keyword among them.
Pad(n) == [k \in 1..n |-> IF k % 2 = 1 THEN "a" ELSE " "]

\* Chapters as title and narrative.  In the last one only the first four
\* letters of "schoolyard" are within the first 500 characters of the combined
\* text, and "harvest" comes after them.
TextChapters ==
    { [title |-> TitleFarmLife, narrative |-> TextFarmLife],
      [title |-> TitleSchool,   narrative |-> TextSchool],
      [title |-> TitleLater,    narrative |-> Pad(KeywordWindow - Len(TitleLater) - 5) \o TailLater] }

TextPhoto(f, y, t, d, p) ==
    [filename |-> f, year |-> y, title |-> t, description |-> d, people |-> p]

\* Media rows with their text columns, ORDER BY year DESC NULLS LAST.
TextPool ==
    << TextPhoto("f2", 1992,
           <<"F", "a", "m", "i", "l", "y", " ", "a", "t", " ", "s", "c", "h", "o", "o",
           "l">>,
           <<"B", "a", "r", "n", " ", "a", "n", "d", " ", "c", "o", "w", "s">>,
           <<"b", "o", "b", " ", "r", "a", "y">>),
       TextPhoto("f1", 1990,
           <<"F", "a", "r", "m", "h", "o", "u", "s", "e">>,
           <<>>,
           <<"A", "n", "n", " ", "L", "e", "e">>),
       TextPhoto("f4", 1985,
           <<"A", "n", "n">>,
           <<"L", "e", "e", " ", "a", "n", "d", " ", "t", "h", "e", " ", "c", "o", "w",
           "s">>,
           <<>>),
       TextPhoto("f3", 0,
           <<>>,
           <<"H", "a", "r", "v", "e", "s", "t">>,
           <<>>) >>

TextCatalogs ==
    {Pick(TextPool, keep, 1) :
        keep \in {K \in SUBSET (1..Len(TextPool)) : Cardinality(K) \in 1..2}}

TextNameLists == {<<>>, <<NameAnn, NameBob>>, <<NameAnnUpper>>}

\* \w
WordChars == Range(LowerCase) \cup Range(UpperCase) \cup Range(Digits) \cup {"_"}
IsWordChar(c) == c \in WordChars

\* f"{title} {description} {people}".lower() (line 469)
PhotoText(photo) ==
    Lower(photo.title \o <<" ">> \o photo.description \o <<" ">> \o photo.people)

\* f"{chapter_title} {chapter_text}".lower() (line 470)
ChapterCombined(chapter) == Lower(chapter.title \o <<" ">> \o chapter.narrative)

\* set(re.findall(r'\b\w{4,}\b', chapter_combined[:500])): the maximal runs of
\* word characters, at least 4 long, of the first 500 characters.
Keywords(combined) ==
    LET w == SubSeq(combined, 1, Min(KeywordWindow, Len(combined)))
        breaks == {j \in 0..(Len(w) + 1) :
                      IF j \in DOMAIN w THEN ~IsWordChar(w[j]) ELSE TRUE}
        starts == {k \in DOMAIN w : IsWordChar(w[k]) /\ (k - 1) \in breaks}
        end(k) == CHOOSE e \in k..Len(w) :
                      (e + 1) \in breaks /\ \A x \in k..e : x \notin breaks
    IN  {SubSeq(w, k, end(k)) : k \in {x \in starts : end(x) - x + 1 >= KeywordMinLen}}

NameTermPhotoOnly(photo, chapter, names) ==
    NameScore * Cardinality({k \in DOMAIN names :
                    Contains(PhotoText(photo), Lower(names[k]))})

\* lines 472-474
NameTermText(photo, chapter, names) ==
    NameScore * Cardinality({k \in DOMAIN names :
                    /\ Contains(PhotoText(photo), Lower(names[k]))
                    /\ Contains(ChapterCombined(chapter), Lower(names[k]))})

\* lines 477-480
KeywordTermText(photo, chapter) ==
    KeywordScore * Cardinality({w \in Keywords(ChapterCombined(chapter)) :
                                   Contains(PhotoText(photo), w)})

\* lines 456-480
TextScore(photo, chapter, names) ==
    YearTerm(ExtractYear(chapter.title), photo.year)
        + NameTermText(photo, chapter, names) + KeywordTermText(photo, chapter)

RECURSIVE TextScoredPhotos(_, _, _, _, _)
TextScoredPhotos(chapter, photos, used, names, k) ==
    IF k > Len(photos) THEN <<>>
    ELSE LET photo == photos[k]
             score == TextScore(photo, chapter, names)
         IN  (IF Eligible(photo, used) /\ Qualifies(score)
              THEN <<[score |-> score, photo |-> photo]>> ELSE <<>>)
             \o TextScoredPhotos(chapter, photos, used, names, k + 1)

\* _match_photos_to_chapter(title, text, available_photos, max_photos)
TextMatch ==
    /\ entry = "text"
    /\ pc = "match"
    /\ LET sorted == IF available_photos = <<>> THEN <<>>
                     ELSE SortByScore(TextScoredPhotos(chapters[1], available_photos,
                                                       used_images, family_names, 1))
           top == TopMatches(sorted, max_photos)
           sel == [k \in 1..Len(top) |-> top[k].photo]
       IN  /\ scored_photos' = sorted
           /\ chapter_photos' = <<sel>>
           /\ used_images' = MarkUsed(used_images, sel)
    /\ pc' = "done"
    /\ UNCHANGED <<Inputs, Apart, calls, prev, i, family_names, available_photos,
                   cover, toc_photos, chapter_thumbnails, toc_entries, chapter_html,
                   outcome>>

InitText ==
    /\ InitIdle("text", "match")
    /\ chapters \in {<<c>> : c \in TextChapters}
    /\ chapters_type = "list"
    /\ catalog \in TextCatalogs
    /\ available_photos = catalog
    /\ max_photos = ChapterMaxPhotos
    /\ family_names \in TextNameLists
    /\ used_images \in {{}, {"f1"}}
    /\ text = NoText
    /\ max_length = 0
    /\ pull_quote = None
    /\ runs = NoRuns
    /\ connection = NoConnection

NextText == TextMatch

SpecText == InitText /\ [][NextText]_vars

(* ================================================================ claims *)
RECURSIVE Flatten(_)
Flatten(ss) == IF ss = <<>> THEN <<>> ELSE Head(ss) \o Flatten(Tail(ss))

\* Every image written into the document, place by place: the cover, the
\* thumbnails of the table of contents, the chapters' photo blocks.
Displayed ==
    (IF cover # None THEN <<cover>> ELSE <<>>)
    \o SelectSeq([k \in 1..Len(toc_entries) |-> toc_entries[k].thumbnail],
                 LAMBDA f : f # None)
    \o Flatten([k \in 1..Len(chapter_html) |-> chapter_html[k].images])

NoRepeat(s) == \A a, b \in DOMAIN s : a # b => s[a] # s[b]

MatchedInToc(k) == Len(toc_photos') = k /\ Len(toc_photos) = k - 1
MatchedInBody(k) == Len(chapter_photos') = k /\ Len(chapter_photos) = k - 1

\* C1: in the finished document no filename is shown in more than one place
\* among the cover, the table-of-contents thumbnails and the chapter photo
\* blocks.
C1_NoDuplicateDisplay == pc = "done" => NoRepeat(Displayed)

\* C2: every photo a matcher call returns was absent from the used set when
\* the call started, so a filename once used is never returned again in the
\* run.
C2_ReturnedWereUnused ==
    [][ /\ \A k \in 1..Len(chapters) :
             MatchedInToc(k) => Filenames(toc_photos'[k]) \cap used_images = {}
        /\ \A k \in 1..Len(chapters) :
             MatchedInBody(k) => Filenames(chapter_photos'[k]) \cap used_images = {} ]_vars

\* C2 witness: a chapter whose best photo was taken as its thumbnail and whose
\* body call, made with that photo in the used set, still returned photos.
C2_Witness ==
    \E k \in DOMAIN chapter_photos :
        /\ toc_photos[k] # <<>>
        /\ chapter_photos[k] # <<>>
        /\ cover # None /\ cover \in used_images

\* C3: a matcher call adds exactly the filenames of the photos it returns to
\* the used set, which grows by their number; nothing is removed during a run.
C3_UsedGrowsByReturned ==
    [][ /\ \A k \in 1..Len(chapters) :
             MatchedInToc(k) =>
                /\ used_images' = used_images \cup Filenames(toc_photos'[k])
                /\ Cardinality(used_images') =
                      Cardinality(used_images) + Len(toc_photos'[k])
        /\ \A k \in 1..Len(chapters) :
             MatchedInBody(k) =>
                /\ used_images' = used_images \cup Filenames(chapter_photos'[k])
                /\ Cardinality(used_images') =
                      Cardinality(used_images) + Len(chapter_photos'[k])
        /\ pc' # "cover" => used_images \subseteq used_images' ]_vars

\* C3 witness: one call returned nothing and another returned several photos,
\* all of them now in the used set.
C3_Witness ==
    /\ \E k \in DOMAIN chapter_photos :
          Len(chapter_photos[k]) >= 2 /\ Filenames(chapter_photos[k]) \subseteq used_images
    /\ \E k \in DOMAIN chapter_photos : chapter_photos[k] = <<>>

\* C4: no table-of-contents call returns more than 1 photo and no chapter-body
\* call more than 3.
C4_AtMostMaxPhotos ==
    /\ \A k \in DOMAIN toc_photos : Len(toc_photos[k]) <= 1
    /\ \A k \in DOMAIN chapter_photos : Len(chapter_photos[k]) <= 3

\* C4 witness: a chapter got 1 thumbnail and 3 body photos while another
\* photo that scores for it is still unused.
C4_Witness ==
    \E k \in DOMAIN chapter_photos :
        /\ Len(toc_photos[k]) = 1
        /\ Len(chapter_photos[k]) = 3
        /\ \E n \in DOMAIN available_photos :
              /\ available_photos[n].filename \notin used_images
              /\ Score(available_photos[n], chapters[k], family_names) > 0

\* C6: each table-of-contents call returns at most one photo, that photo is in
\* no chapter body's photo list, and every table-of-contents call is made
\* before the first chapter-body call.
C6_TocPhotoConsumed ==
    /\ \A j \in DOMAIN toc_photos : Len(toc_photos[j]) <= 1
    /\ \A j \in DOMAIN toc_photos : \A k \in DOMAIN chapter_photos :
          Filenames(toc_photos[j]) \cap Filenames(chapter_photos[k]) = {}
    /\ chapter_photos # <<>> => Len(toc_photos) = Len(chapters)
    /\ pc = "toc" => chapter_photos = <<>>

\* C6 witness: a finished two-chapter run in which every chapter has a
\* thumbnail photo and body photos.
C6_Witness ==
    /\ pc = "done"
    /\ Len(chapters) = 2
    /\ \A k \in DOMAIN chapters : toc_photos[k] # <<>> /\ chapter_photos[k] # <<>>

\* C7: once the cover is chosen, the cover photo is in the used set, whether
\* it was given as hero_photo or auto-selected.
C7_CoverMarkedUsed ==
    (pc \in {"toc", "chapters", "done"} /\ cover # None) => cover \in used_images

\* C5: two calls with the same chapters, catalog and configuration produce
\* the same cover, the same thumbnail and chapter photos and the same layouts.
C5_SameResultTwice ==
    (pc = "done" /\ prev # {}) => Result \in prev

\* The length _create_chapter_html measures: the narrative with every
\* highlighted name wrapped in 36 characters of markup.
MeasuredLength ==
    chapters[1].len
      + 36 * Cardinality({k \in DOMAIN family_names :
                            family_names[k] \in Range(chapters[1].mentions)})

OnePhotoChapter == pc = "done" /\ Len(chapter_photos[1]) = 1

\* C8 as stated: with exactly 1 matched photo, a narrative of 801 characters
\* gives Facing-spread, one of exactly 800 gives Embedded-image and one of
\* exactly 400 gives Simple, whatever the family names.
C8_NarrativeLengthBoundary ==
    OnePhotoChapter =>
        /\ chapters[1].len = 801 => chapter_html[1].layout = "facing"
        /\ chapters[1].len = 800 => chapter_html[1].layout = "embedded"
        /\ chapters[1].len = 400 => chapter_html[1].layout = "simple"

\* C8 amended: the boundaries are those of the highlighted narrative: with
\* exactly 1 matched photo, a measured length of 801 gives Facing-spread, of
\* exactly 800 Embedded-image, of exactly 400 Simple.
C8_MeasuredLengthBoundary ==
    OnePhotoChapter =>
        /\ MeasuredLength = 801 => chapter_html[1].layout = "facing"
        /\ MeasuredLength = 800 => chapter_html[1].layout = "embedded"
        /\ MeasuredLength = 400 => chapter_html[1].layout = "simple"

\* C8 witness: 1 photo, a narrative of 764 characters with one highlighted
\* name (measured 800), rendered as Embedded-image.
C8_Witness ==
    /\ OnePhotoChapter
    /\ chapters[1].len = 764
    /\ MeasuredLength = 800
    /\ chapter_html[1].layout = "embedded"

\* C9: the layout is that of the first matching rule (1 photo and length >
\* 800: Facing-spread; 2 or more photos: Grid-with-text; 1 photo and length >
\* 400: Embedded-image; otherwise Simple), and the chapter holds the blocks of
\* that one layout only.
C9_DecisionTable ==
    pc = "done" =>
        LET n == Len(chapter_photos[1])
            html == chapter_html[1]
        IN  /\ Len(chapter_html) = 1
            /\ html.layout =
                 (IF n = 1 /\ MeasuredLength > 800 THEN "facing"
                  ELSE IF n >= 2 THEN "grid"
                  ELSE IF n = 1 /\ MeasuredLength > 400 THEN "embedded"
                  ELSE "simple")
            /\ html.layout \in {"facing", "embedded"} => html.grid = <<>>
            /\ html.layout = "grid" => Len(html.grid) >= 2
            /\ html.layout = "simple" => Len(html.grid) <= 1

\* C9 witness: 2 or more photos with a text longer than 800 rendered as
\* Grid-with-text.
C9_Witness ==
    /\ pc = "done"
    /\ Len(chapter_photos[1]) >= 2
    /\ MeasuredLength > 800
    /\ chapter_html[1].layout = "grid"

\* C10: Grid-with-text is given exactly the first 3 matched photos and shows
\* those of them whose file resolves, nothing of the 4th and later ones; and
\* only the cover and the photos the matcher returned are in the used set.
C10_GridCap ==
    pc = "done" =>
        LET files == FileSeq(chapter_photos[1])
            html == chapter_html[1]
            first3 == SubSeq(files, 1, IF Len(files) < 3 THEN Len(files) ELSE 3)
        IN  /\ html.layout = "grid" =>
                 /\ html.grid = first3
                 /\ html.images = SelectSeq(first3, LAMBDA f : f \notin missing)
                 /\ \A k \in 4..Len(files) : files[k] \notin Range(html.images)
            /\ used_images \subseteq Range(files) \cup ({cover} \ {None})

\* C10 witness: 5 matched photos, 3 of them shown in the grid, and a catalog
\* photo the matcher did not return that is not in the used set.
C10_Witness ==
    /\ pc = "done"
    /\ Len(chapter_photos[1]) = 5
    /\ chapter_html[1].layout = "grid"
    /\ Len(chapter_html[1].images) = 3
    /\ \E k \in DOMAIN catalog : catalog[k].filename \notin used_images

\* The text of C11: "It was fine. I will always remember that summer! We laughed."
ClaimText == JoinSentences(<<SentFine, SentSummer, SentLaughed>>)

\* C11: for that text and max_length 150 the pull quote is the second
\* sentence with its exclamation mark kept and a period appended:
\* "I will always remember that summer!."
C11_KeepsExclamation ==
    (pc = "done" /\ text = ClaimText /\ max_length = 150) =>
        pull_quote = SentSummer \o <<".">>

\* The year the matcher is to read in each title.
TitleYear(title) ==
    CASE title = TitleNineties -> 1990
      [] title = TitleEarly -> 1990
      [] title = TitleFarm -> 0
      [] title = TitleLong -> 1990
      [] title = TitleRoom -> 2001
      [] title = TitleRange -> 1993

\* The year term as the claim tabulates it (0 stands for an absent year).
TabulatedYearTerm(chapterYear, photoYear) ==
    IF chapterYear = 0 \/ photoYear = 0 THEN 0
    ELSE LET d == Abs(photoYear - chapterYear)
         IN  IF d = 0 THEN 100
             ELSE IF d \in 1..2 THEN 50
             ELSE IF d \in 3..5 THEN 20
             ELSE 0

ScoreGiven(photo) ==
    IF \E j \in DOMAIN scored_photos : scored_photos[j].photo = photo
    THEN scored_photos[CHOOSE j \in DOMAIN scored_photos :
                           scored_photos[j].photo = photo].score
    ELSE 0

Photo1990 == Photo("y1990", 1990, {}, FALSE, {})
Photo1998 == Photo("y1998", 1998, {}, FALSE, {})

\* C12: with no name or keyword score, every candidate's score is the year
\* term 100 / 50 / 20 / 0 for a year difference of 0 / 1-2 / 3-5 / more, and 0
\* when the title has no 4-digit year or the photo has no year; for the title
\* "Chapter (1990s)" the 1990 photo scores at least 80 more than the 1998
\* photo and is the one returned.
C12_YearTerm ==
    pc \in {"layout", "done"} =>
        /\ \A k \in DOMAIN catalog :
              ScoreGiven(catalog[k]) =
                  TabulatedYearTerm(TitleYear(chapters[1].title), catalog[k].year)
        /\ (chapters[1].title = TitleNineties /\ catalog = <<Photo1998, Photo1990>>) =>
              /\ ScoreGiven(Photo1990) >= ScoreGiven(Photo1998) + 80
              /\ chapter_photos[1] = <<Photo1990>>

C12_Witness ==
    /\ pc = "done"
    /\ chapters[1].title = TitleNineties
    /\ catalog = <<Photo1998, Photo1990>>
    /\ max_photos = 3
    /\ chapter_photos[1] = <<Photo1990>>
    /\ scored_photos = <<[score |-> 100, photo |-> Photo1990]>>

TitlesOf(blocks) == [k \in 1..Len(blocks) |-> blocks[k].title]

\* C13: the finished document has exactly one table-of-contents entry and one
\* chapter block per input chapter, both in the order of the input list, also
\* when two chapters have the same title.
C13_InputOrderKept ==
    pc = "done" =>
        /\ Len(toc_entries) = Len(chapters)
        /\ Len(chapter_html) = Len(chapters)
        /\ \A k \in DOMAIN chapters :
              /\ toc_entries[k].title = chapters[k].title
              /\ chapter_html[k].title = chapters[k].title

C13_Witness ==
    /\ pc = "done"
    /\ Len(chapters) = 2
    /\ chapters[1].title = "Farm life"
    /\ chapters[2].title = "Early years (1990)"
    /\ TitlesOf(toc_entries) = <<"Farm life", "Early years (1990)">>
    /\ TitlesOf(chapter_html) = <<"Farm life", "Early years (1990)">>

\* The chapter input is missing, empty or not a list.
InvalidChapters == Falsy(chapters_type, chapters) \/ chapters_type # "list"

\* C14: with chapter input that is missing, empty or not a list, the used
\* set is never modified, the rendering step is never reached, and the caller
\* gets an error answer (status 400 or an exception), never a document.
C14_InvalidInputRejected ==
    InvalidChapters =>
        /\ used_images = {}
        /\ outcome \in {"none", "400", "error"}
        /\ pc \notin {"chapters", "done", "failed_render"}

\* C15: when the media query raises, the run goes on with an empty catalog:
\* no catalog photo becomes the cover, a thumbnail or a chapter photo, the
\* used set stays empty, every chapter gets the Simple layout without images,
\* and the run is not ended by the failure.
C15_DegradesToTextOnly ==
    db = "fails" =>
        /\ available_photos = <<>>
        /\ used_images = {}
        /\ cover \in {None, hero_photo}
        /\ \A k \in DOMAIN toc_photos : toc_photos[k] = <<>>
        /\ \A k \in DOMAIN toc_entries : toc_entries[k].thumbnail = None
        /\ \A k \in DOMAIN chapter_photos : chapter_photos[k] = <<>>
        /\ \A k \in DOMAIN chapter_html :
              /\ chapter_html[k].layout = "simple"
              /\ chapter_html[k].images = <<>>
              /\ chapter_html[k].text
        /\ pc \in {"start", "cover", "toc", "chapters", "done", "failed_render"}
        /\ pc \in {"done", "failed_render"} => Len(chapter_html) = Len(chapters)

C15_Witness ==
    /\ db = "fails"
    /\ Len(catalog) = MaxCatalog
    /\ hero_photo = None
    /\ pc = "done"
    /\ outcome = "pdf"
    /\ cover = None
    /\ Len(chapter_html) = 2
    /\ chapter_html[1].layout = "simple"
    /\ chapter_html[2].layout = "simple"

\* C16: in every layout a photo whose file does not resolve only loses its
\* image block: the chapter is rendered with its title and its narrative
\* paragraphs all the same.
C16_TextKeptWithoutImage ==
    pc = "done" =>
        /\ chapter_html[1].title = chapters[1].title
        /\ \A k \in DOMAIN chapter_html[1].images :
              Resolves(chapter_html[1].images[k], missing)
        /\ chapter_html[1].text

\* C17: when the rendering step fails, the caller gets the failure and no
\* document: a document is returned only by a run whose rendering succeeded.
C17_RenderFailureIsFatal ==
    /\ pc = "failed_render" => outcome = "error"
    /\ outcome = "pdf" => pc = "done"

C17_Witness ==
    /\ pc = "failed_render"
    /\ entry = "route"
    /\ outcome = "error"
    /\ chapter_html # <<>>
    /\ cover # None

\* The files a call has itself put on show so far.
OwnFiles(c) ==
    (IF c.cover = None THEN {} ELSE {c.cover})
        \cup Filenames(Flatten(c.toc_photos)) \cup Filenames(Flatten(c.chapter_photos))

CallResult(c) == <<c.cover, c.toc_photos, c.chapter_photos>>

CatalogPos(photo) == CHOOSE k \in DOMAIN catalog : catalog[k].filename = photo.filename

\* Catalog positions of the candidates of a direct matcher call: not used
\* before the call (only the cover is) and scoring above 0.
UnitEligible ==
    {k \in DOMAIN catalog :
        /\ catalog[k].filename # cover
        /\ Score(catalog[k], chapters[1], family_names) > 0}

\* C19: the matcher returns photos in descending score order, equal scores in
\* catalog order, and they are the top max_photos of the eligible candidates:
\* every eligible candidate left out scores no higher than any returned one,
\* and at an equal score comes later in the catalog.
C19_TopByScoreStable ==
    pc \in {"layout", "done"} =>
        LET ret == chapter_photos[1]
            sc(photo) == Score(photo, chapters[1], family_names)
        IN  /\ Len(ret) = Min(max_photos, Cardinality(UnitEligible))
            /\ \A a \in DOMAIN ret : CatalogPos(ret[a]) \in UnitEligible
            /\ \A a, b \in DOMAIN ret :
                  a < b =>
                      /\ sc(ret[a]) >= sc(ret[b])
                      /\ sc(ret[a]) = sc(ret[b]) => CatalogPos(ret[a]) < CatalogPos(ret[b])
            /\ \A k \in UnitEligible :
                  catalog[k] \notin Range(ret) =>
                      \A a \in DOMAIN ret :
                          /\ sc(catalog[k]) <= sc(ret[a])
                          /\ sc(catalog[k]) = sc(ret[a]) => CatalogPos(ret[a]) < k

\* All six photos are candidates and five are asked for: the order returned
\* is not the catalog's, and of the two photos that score 5 the earlier one
\* is returned and the later one left out.
C19_Witness ==
    /\ pc = "done"
    /\ catalog = PhotoPool
    /\ cover = None
    /\ family_names = <<>>
    /\ max_photos = 5
    /\ FileSeq(chapter_photos[1]) = <<"p4", "p3", "p2", "p5", "p1">>
    /\ Score(PhotoPool[1], chapters[1], family_names)
          = Score(PhotoPool[6], chapters[1], family_names)

\* The files the run has put on show.
Shown ==
    (IF cover = None THEN {} ELSE {cover})
        \cup Filenames(Flatten(toc_photos)) \cup Filenames(Flatten(chapter_photos))

\* C20: no photo whose score for the chapter is 0 is returned by the matcher
\* or marked used by it, however few candidates score above 0.
C20_ZeroScoreExcluded ==
    /\ \A k \in DOMAIN toc_photos : \A a \in DOMAIN toc_photos[k] :
          Score(toc_photos[k][a], chapters[k], family_names) > 0
    /\ \A k \in DOMAIN chapter_photos : \A a \in DOMAIN chapter_photos[k] :
          Score(chapter_photos[k][a], chapters[k], family_names) > 0
    /\ used_images \subseteq Shown

\* A finished run in which a chapter got fewer than three photos, another
\* got none, and a photo scoring 0 for both was left unused.
C20_Witness ==
    /\ pc = "done"
    /\ Len(chapters) = 2
    /\ Len(chapter_photos[1]) \in 1..2
    /\ chapter_photos[2] = <<>>
    /\ \E j \in DOMAIN catalog :
          /\ catalog[j].filename \notin used_images
          /\ Score(catalog[j], chapters[1], family_names) = 0
          /\ Score(catalog[j], chapters[2], family_names) = 0

\* The keywords of each chapter: its lower-cased words of four or more
\* characters, as far as they lie within the first 500 characters.
ChapterKeywords(title) ==
    CASE title = TitleFarmLife ->
            { <<"f", "a", "r", "m">>,
              <<"l", "i", "f", "e">>,
              <<"1", "9", "9", "0">>,
              <<"k", "e", "p", "t">>,
              <<"c", "o", "w", "s">>,
              <<"b", "a", "r", "n">> }
      [] title = TitleSchool ->
            { <<"s", "c", "h", "o", "o", "l">>,
              <<"d", "a", "y", "s">>,
              <<"w", "a", "l", "k", "e", "d">> }
      [] title = TitleLater ->
            { <<"l", "a", "t", "e", "r">>,
              <<"y", "e", "a", "r", "s">>,
              <<"s", "c", "h", "o">> }

NameInBoth(name, photo, chapter) ==
    /\ Contains(PhotoText(photo), Lower(name))
    /\ Contains(ChapterCombined(chapter), Lower(name))

\* C21: the score of every candidate not used before the call is the year
\* term, plus 30 for each configured family name found, whatever its case, in
\* both the photo's text and the chapter's text, plus 5 for each distinct
\* chapter keyword found in the photo's text.
C21_ScoreIsSumOfTerms ==
    pc = "done" =>
        \A k \in DOMAIN catalog :
            catalog[k].filename \notin (used_images \ Filenames(chapter_photos[1])) =>
                ScoreGiven(catalog[k]) =
                    YearTerm(ExtractYear(chapters[1].title), catalog[k].year)
                    + 30 * Cardinality({n \in DOMAIN family_names :
                              NameInBoth(family_names[n], catalog[k], chapters[1])})
                    + 5 * Cardinality({w \in ChapterKeywords(chapters[1].title) :
                              Contains(PhotoText(catalog[k]), w)})

\* Both names are configured; the chapter names only Ann Lee.  The photo
\* tagged "Ann Lee" gets 100 + 30 + 5, the photo tagged "bob ray" gets
\* 50 + 5 + 5 and nothing for the name.
C21_Witness ==
    /\ pc = "done"
    /\ chapters[1].title = TitleFarmLife
    /\ family_names = <<NameAnn, NameBob>>
    /\ catalog = <<TextPool[1], TextPool[2]>>
    /\ Contains(PhotoText(TextPool[1]), Lower(NameBob))
    /\ scored_photos = << [score |-> 135, photo |-> TextPool[2]],
                          [score |-> 60,  photo |-> TextPool[1]] >>

\* The sentences a text is made of, each with its closing punctuation.
SentencesOf(txt) ==
    CHOOSE ss \in UNION {[1..m -> SentencePool] : m \in 1..MaxSentences} :
        JoinSentences(ss) = txt

\* A sentence without its closing punctuation.
SentenceBody(sentence) ==
    LET NotTerminator(c) == c \notin Terminators
    IN  Strip(SelectSeq(sentence, NotTerminator))

\* The first pass takes a sentence of more than 30 and fewer than max_length
\* characters with a quote mark, an exclamation mark or an emotional word.
FirstPass(sentence, maxlen) ==
    /\ 30 < Len(SentenceBody(sentence))
    /\ Len(SentenceBody(sentence)) < maxlen
    /\ \/ \E k \in DOMAIN sentence : sentence[k] \in {"\"", "'", "!"}
       \/ \E word \in EmotionalWords : Contains(Lower(SentenceBody(sentence)), word)

\* The second pass takes a sentence of more than 40 and fewer than max_length
\* characters.
SecondPass(sentence, maxlen) ==
    40 < Len(SentenceBody(sentence)) /\ Len(SentenceBody(sentence)) < maxlen

\* C22: the pull quote is the first sentence, in text order, that the first
\* pass takes; only when there is none, the first that the second pass
\* takes; and absent when there is none either.
C22_TwoPassPolicy ==
    pc = "done" =>
        LET ss == SentencesOf(text)
            first == {k \in DOMAIN ss : FirstPass(ss[k], max_length)}
            second == {k \in DOMAIN ss : SecondPass(ss[k], max_length)}
        IN  IF first # {}
            THEN SentenceBody(ss[SmallestOf(first)]) \o <<".">> = pull_quote
            ELSE IF second # {}
            THEN SentenceBody(ss[SmallestOf(second)]) \o <<".">> = pull_quote
            ELSE pull_quote = None

\* Catalog positions of the photos with a tagged person or "family" in the
\* title.
Qualifying == {k \in DOMAIN available_photos :
                  available_photos[k].people # {} \/ available_photos[k].famTitle}

CoverChosen == pc \in {"toc", "chapters", "done", "failed_render"} /\ hero_photo = None

\* C23: without an explicit hero photo the cover is the first catalog photo
\* with a tagged person or "family" in its title, or the first catalog photo
\* when none qualifies; with an empty catalog there is no cover photo and the
\* used set stays empty.
C23_FirstQualifyingIsCover ==
    CoverChosen =>
        IF available_photos = <<>> THEN cover = None /\ used_images = {}
        ELSE IF Qualifying # {}
        THEN cover = available_photos[SmallestOf(Qualifying)].filename
        ELSE cover = available_photos[1].filename

\* C23, amended: the cover is the first qualifying catalog photo whose file
\* resolves; when there is none, the first catalog photo if its file
\* resolves, and no photo otherwise.  The photo chosen is in the used set.
C23_FirstResolvingQualifyingIsCover ==
    CoverChosen =>
        LET shown == {k \in Qualifying : available_photos[k].filename \notin missing}
        IN  /\ IF available_photos = <<>> THEN cover = None /\ used_images = {}
               ELSE IF shown # {}
               THEN cover = available_photos[SmallestOf(shown)].filename
               ELSE IF available_photos[1].filename \notin missing
               THEN cover = available_photos[1].filename
               ELSE cover = None
            /\ cover # None => cover \in used_images

\* The first qualifying photo's file is missing and a later qualifying photo
\* is on the cover.
C23_Witness ==
    /\ CoverChosen
    /\ pc = "toc"
    /\ missing = {"p1"}
    /\ Len(available_photos) >= 3
    /\ available_photos[1].filename = "p1"
    /\ available_photos[2].filename = "p2"
    /\ cover = "p2"
    /\ used_images = {"p2"}

\* C24: every chapter's table-of-contents entry shows the photo the matcher
\* returned for that chapter in the table-of-contents pass, or no thumbnail
\* when it returned none or the file does not resolve; also when two chapters
\* have the same title.
C24_ThumbnailIsOwnMatch ==
    pc \in {"chapters", "done", "failed_render"} =>
        \A k \in DOMAIN chapters :
            toc_entries[k].thumbnail =
                IF toc_photos[k] # <<>> /\ toc_photos[k][1].filename \notin missing
                THEN toc_photos[k][1].filename
                ELSE None

\* C25: when a call of the module-level function has ended, by returning or
\* by raising, it has closed exactly the connection it opened itself, and a
\* connection the caller supplied is still open.
OpenedItself == (connection.open \cup connection.closed) \ {"supplied"}

C25_ClosesExactlyOwn ==
    (entry = "legacy" /\ pc \in {"returned", "raised", "failed_input"}) =>
        /\ connection.closed = OpenedItself
        /\ connection.given = "supplied" => "supplied" \in connection.open

====
